---- MODULE Spec2Model ----
(***************************************************************************)
(* Serial-number validator of src/main.rs.                                 *)
(*                                                                         *)
(* A string is a sequence of Unicode scalar values (what str::chars()      *)
(* yields), each written as its code point.  The DynamoDB table "assets"   *)
(* is the set of serial numbers that have an item.  One invocation of      *)
(* validation_handler is followed statement by statement through           *)
(* validate_serial; the table is only changed by other writers, between    *)
(* invocations.                                                            *)
(***************************************************************************)
EXTENDS Integers, Sequences, FiniteSets, TLC

\* ------------------------------------------------------------------ bounds
\* Longest string enumerated exhaustively over Alphabet.
MaxLen == 6

\* ------------------------------------------------------- program constants
\* serial_number.chars().count() >= 6
MinLength == 6

\* ------------------------------------------------------------------ inputs
\* 'a' and '@': one alphanumeric and one non-alphanumeric character.
Alphabet == {97, 64}

BoundedStrings == UNION {[1..n -> Alphabet] : n \in 0..MaxLen}

\* The strings of the test module and of the specification's scenarios.
S_i234       == <<105, 50, 51, 52>>
S_i234at     == <<105, 50, 51, 52, 64>>
S_serial1    == <<115, 101, 114, 105, 97, 108, 49>>
S_serial4    == <<115, 101, 114, 105, 97, 108, 52>>
S_a12345bbc  == <<97, 49, 50, 51, 52, 53, 98, 98, 99>>
S_i23456     == <<105, 50, 51, 52, 53, 54>>
S_abcd_1234  == <<97, 98, 99, 100, 33, 49, 50, 51, 52>>
S_cyrillic   == <<1072, 1073, 1074, 1075, 1076, 1077, 1078, 1079, 1080, 1081,
                  1102, 1103, 49, 50, 51, 52>>
\* "a!"
S_a_bang     == <<97, 33>>
\* "SERIAL1" and "serial1 ": the stored key up to case and up to trimming.
S_SERIAL1    == <<83, 69, 82, 73, 65, 76, 49>>
S_serial1_sp == <<115, 101, 114, 105, 97, 108, 49, 32>>
\* three Cyrillic letters: 3 characters, 6 bytes of UTF-8
S_yayaya     == <<1103, 1103, 1103>>

Scenarios ==
    {S_i234, S_i234at, S_serial1, S_serial4, S_a12345bbc, S_i23456,
     S_abcd_1234, S_cyrillic, S_a_bang, S_SERIAL1, S_serial1_sp, S_yayaya}

Inputs == BoundedStrings \cup Scenarios

\* Keys other writers may put into the table: a well-formed one, one failing
\* both format checks, one failing the length check only.
StoreKeys == {S_serial1, <<97, 64>>, S_i234}

\* ------------------------------------------------------------ pure helpers
\* char::is_alphanumeric on the code points used here: ASCII and the basic
\* Cyrillic letters U+0410..U+044F.
is_alphanumeric_ascii(c) ==
    \/ c \in 48..57
    \/ c \in 65..90
    \/ c \in 97..122

is_alphanumeric(c) ==
    \/ c \in 48..57
    \/ c \in 65..90
    \/ c \in 97..122
    \/ c \in 1040..1103

\* Length of the UTF-8 encoding of one scalar value (str::len counts these).
Utf8Len(c) == IF c < 128 THEN 1 ELSE IF c < 2048 THEN 2 ELSE IF c < 65536 THEN 3 ELSE 4

RECURSIVE ByteLen(_)
ByteLen(s) == IF s = <<>> THEN 0 ELSE Utf8Len(Head(s)) + ByteLen(Tail(s))

validate_serial_length_bytes(s) == ByteLen(s) >= MinLength

validate_serial_length(s) == Len(s) >= MinLength

validate_serial_alphanumeric(s) == \A i \in DOMAIN s : is_alphanumeric(s[i])

\* ValidationError::value
value(e) ==
    CASE e = "InvalidFormat" -> "invalid_format"
      [] e = "AlreadyExists" -> "already_exists"

\* ASCII lower-casing of a key.
ToLower(s) == [i \in DOMAIN s |-> IF s[i] \in 65..90 THEN s[i] + 32 ELSE s[i]]

get_item_casefold(key, table) ==
    IF \E k \in table : ToLower(k) = ToLower(key) THEN "Some" ELSE "None"

\* GetItem on the table with key serial_number = key: the item field of a
\* successful response.
get_item(key, table) == IF key \in table THEN "Some" ELSE "None"

\* ValidationResult { is_valid: true, errors: Vec::new() }
NewResult == [is_valid |-> TRUE, errors |-> <<>>]

push_error_keepValid(r, e) ==
    [is_valid |-> r.is_valid, errors |-> Append(r.errors, value(e))]

push_error_dedup(r, e) ==
    [is_valid |-> FALSE,
     errors |-> IF \E i \in DOMAIN r.errors : r.errors[i] = value(e)
                THEN r.errors ELSE Append(r.errors, value(e))]

\* result.is_valid = false; result.errors.push(e.value());
push_error(r, e) ==
    [is_valid |-> FALSE, errors |-> Append(r.errors, value(e))]

\* ------------------------------------------------------------------- state
VARIABLES
    store,      \* serial numbers that have an item in the table
    pc,         \* position of the invocation
    serial,     \* event.serial_number
    result,     \* the local `result` of validate_serial
    response,   \* outcome of get_item: "none", "Some", "None" or "Err"
    reads,      \* get_item calls issued by the current invocation
    returned,   \* <<r>> once the handler returned Ok(r), else <<>>
    prev        \* <<[serial, result]>> of the latest completed invocation
                \* with the present table content, else <<>>

vars == <<store, pc, serial, result, response, reads, returned, prev>>

Init ==
    /\ store \in SUBSET StoreKeys
    /\ pc = "idle"
    /\ serial = <<>>
    /\ result = NewResult
    /\ response = "none"
    /\ reads = 0
    /\ returned = <<>>
    /\ prev = <<>>

\* ----------------------------------------------------------------- actions
\* The runtime hands an event to validation_handler, which calls
\* validate_serial; its first statement creates the result.
Invoke(s) ==
    /\ pc = "idle"
    /\ serial' = s
    /\ result' = NewResult
    /\ response' = "none"
    /\ reads' = 0
    /\ returned' = <<>>
    /\ pc' = "length"
    /\ UNCHANGED <<store, prev>>

\* if !validate_serial_length(serial_number) { ... }
CheckLength ==
    /\ pc = "length"
    /\ result' = IF ~validate_serial_length(serial)
                 THEN push_error(result, "InvalidFormat") ELSE result
    /\ pc' = "alphanumeric"
    /\ UNCHANGED <<store, serial, response, reads, returned, prev>>

CheckAlphanumeric_shortcircuit ==
    /\ pc = "alphanumeric"
    /\ result' = IF result.is_valid /\ ~validate_serial_alphanumeric(serial)
                 THEN push_error(result, "InvalidFormat") ELSE result
    /\ pc' = "unique"
    /\ UNCHANGED <<store, serial, response, reads, returned, prev>>

\* if !validate_serial_alphanumeric(serial_number) { ... }
CheckAlphanumeric ==
    /\ pc = "alphanumeric"
    /\ result' = IF ~validate_serial_alphanumeric(serial)
                 THEN push_error(result, "InvalidFormat") ELSE result
    /\ pc' = "unique"
    /\ UNCHANGED <<store, serial, response, reads, returned, prev>>

\* validate_serial_unique up to client.get_item(query_serials).sync(): the
\* read either succeeds with the item looked up by the exact key, or errs.
IssueRead ==
    /\ pc = "unique"
    /\ reads' = reads + 1
    /\ response' \in {get_item(serial, store), "Err"}
    /\ pc' = "await"
    /\ UNCHANGED <<store, serial, result, returned, prev>>

\* The match on the response, the third `if` of validate_serial and its
\* return, wrapped in Ok by validation_handler.  Err panics: the stack
\* unwinds, the local result is dropped and nothing is returned.
HandleResponse_swallow ==
    /\ pc = "await"
    /\ LET unique == response # "Some"
           r == IF ~unique THEN push_error(result, "AlreadyExists") ELSE result
       IN /\ result' = r
          /\ returned' = <<r>>
          /\ pc' = "returned"
    /\ UNCHANGED <<store, serial, response, reads, prev>>

HandleResponse_retry ==
    /\ pc = "await"
    /\ IF response = "Err"
       THEN /\ pc' = IF reads < 2 THEN "unique" ELSE "fault"
            /\ result' = IF reads < 2 THEN result ELSE NewResult
            /\ returned' = <<>>
       ELSE LET unique == response = "None"
                r == IF ~unique THEN push_error(result, "AlreadyExists") ELSE result
            IN /\ result' = r
               /\ returned' = <<r>>
               /\ pc' = "returned"
    /\ UNCHANGED <<store, serial, response, reads, prev>>

HandleResponse_record ==
    /\ pc = "await"
    /\ IF response = "Err"
       THEN /\ pc' = "fault"
            /\ result' = NewResult
            /\ returned' = <<>>
            /\ store' = store
       ELSE LET unique == response = "None"
                r == IF ~unique THEN push_error(result, "AlreadyExists") ELSE result
            IN /\ result' = r
               /\ returned' = <<r>>
               /\ pc' = "returned"
               /\ store' = IF r.is_valid THEN store \cup {serial} ELSE store
    /\ UNCHANGED <<serial, response, reads, prev>>

HandleResponse ==
    /\ pc = "await"
    /\ IF response = "Err"
       THEN /\ pc' = "fault"
            /\ result' = NewResult
            /\ returned' = <<>>
       ELSE LET unique == response = "None"
                r == IF ~unique THEN push_error(result, "AlreadyExists") ELSE result
            IN /\ result' = r
               /\ returned' = <<r>>
               /\ pc' = "returned"
    /\ UNCHANGED <<store, serial, response, reads, prev>>

\* The runtime serialises the returned result; the invocation is over and
\* its frame is gone.
Complete ==
    /\ pc = "returned"
    /\ prev' = <<[serial |-> serial, result |-> returned[1]]>>
    /\ pc' = "idle"
    /\ serial' = <<>>
    /\ result' = NewResult
    /\ response' = "none"
    /\ reads' = 0
    /\ returned' = <<>>
    /\ UNCHANGED store

\* The runtime reports the panic as a failed invocation.
Fail ==
    /\ pc = "fault"
    /\ pc' = "idle"
    /\ serial' = <<>>
    /\ response' = "none"
    /\ reads' = 0
    /\ UNCHANGED <<store, result, returned, prev>>

\* Another writer puts or deletes an item of the table.
StorePut(k) ==
    /\ pc = "idle"
    /\ k \notin store
    /\ store' = store \cup {k}
    /\ prev' = <<>>
    /\ UNCHANGED <<pc, serial, result, response, reads, returned>>

StoreDelete(k) ==
    /\ pc = "idle"
    /\ k \in store
    /\ store' = store \ {k}
    /\ prev' = <<>>
    /\ UNCHANGED <<pc, serial, result, response, reads, returned>>

Next ==
    \/ \E s \in Inputs : Invoke(s)
    \/ CheckLength
    \/ CheckAlphanumeric
    \/ IssueRead
    \/ HandleResponse
    \/ Complete
    \/ Fail
    \/ \E k \in StoreKeys : StorePut(k)
    \/ \E k \in StoreKeys : StoreDelete(k)

Spec == Init /\ [][Next]_vars

\* ------------------------------------------------------------- vocabulary
\* The letters and digits among the code points of Inputs, listed
\* independently of the validator: ASCII digits, ASCII letters, Cyrillic.
AlnumCodePoints == (48..57) \cup (65..90) \cup (97..122) \cup (1040..1103)

TooShort(s) == Len(s) < MinLength
HasSymbol(s) == \E i \in DOMAIN s : s[i] \notin AlnumCodePoints
Has(r, code) == \E i \in DOMAIN r.errors : r.errors[i] = code
Count(r, code) == Cardinality({i \in DOMAIN r.errors : r.errors[i] = code})
Returned == pc = "returned"
Out == returned[1]

\* ------------------------------------------------------------------ claims

\* C1: every ValidationResult, while it is built and when it is returned,
\* has is_valid true exactly when its errors list is empty.
C1_ValidIffNoErrors ==
    /\ result.is_valid = (result.errors = <<>>)
    /\ Returned => Out.is_valid = (Out.errors = <<>>)

C1_Witness ==
    /\ Returned
    /\ ~Out.is_valid
    /\ Len(Out.errors) = 2
    /\ Has(Out, "already_exists")

\* C2: once the read has failed and been handled, the invocation is a fault
\* and nothing has been returned, also when a format check had failed; a
\* returned result always comes from a successful read.
C2_ReadFailureIsFault ==
    /\ (response = "Err" /\ pc # "await") => (pc = "fault" /\ returned = <<>>)
    /\ returned # <<>> => response \in {"Some", "None"}

C2_Witness ==
    /\ pc = "fault"
    /\ response = "Err"
    /\ returned = <<>>
    /\ TooShort(serial)
    /\ HasSymbol(serial)

\* C3: the returned errors are, in this order and without deduplication,
\* invalid_format if the length check fails, invalid_format if the
\* character-class check fails, already_exists if the key is stored.
ExpectedErrors(s, table) ==
    (IF TooShort(s) THEN <<"invalid_format">> ELSE <<>>)
    \o (IF HasSymbol(s) THEN <<"invalid_format">> ELSE <<>>)
    \o (IF s \in table THEN <<"already_exists">> ELSE <<>>)

C3_NoShortCircuit ==
    Returned => Out.errors = ExpectedErrors(serial, store)

C3_Witness ==
    /\ Returned
    /\ Out.errors = <<"invalid_format", "invalid_format", "already_exists">>

\* C4 as claimed: with "serial1" stored, "i234@" returns a single
\* invalid_format entry.
C4_Original ==
    (Returned /\ serial = S_i234at /\ store = {S_serial1})
        => Out = [is_valid |-> FALSE, errors |-> <<"invalid_format">>]

\* C4 as amended: with "serial1" stored, "i234@" returns is_valid false and
\* errors = [invalid_format, invalid_format], one entry per failed format
\* check.
C4_TwoFormatEntries ==
    (Returned /\ serial = S_i234at /\ store = {S_serial1})
        => Out = [is_valid |-> FALSE,
                  errors |-> <<"invalid_format", "invalid_format">>]

C4_Witness ==
    /\ Returned
    /\ serial = S_i234at
    /\ store = {S_serial1}

\* C5: a string of at least 6 characters, all letters or digits, that is
\* not stored is returned as valid with no errors.
C5_WellFormedNewIsValid ==
    (Returned /\ ~TooShort(serial) /\ ~HasSymbol(serial) /\ serial \notin store)
        => Out = [is_valid |-> TRUE, errors |-> <<>>]

C5_Witness ==
    /\ Returned
    /\ serial = S_cyrillic
    /\ serial \notin store
    /\ Out.is_valid

\* C6: the returned errors contain invalid_format exactly when the string
\* has fewer than 6 characters or has a non-alphanumeric character, and
\* then is_valid is false.
C6_InvalidFormatIff ==
    Returned =>
        /\ Has(Out, "invalid_format") <=> (TooShort(serial) \/ HasSymbol(serial))
        /\ (TooShort(serial) \/ HasSymbol(serial)) => ~Out.is_valid

C6_Witness ==
    /\ Returned
    /\ serial = S_yayaya
    /\ Out.errors = <<"invalid_format">>

\* C7: the returned errors contain already_exists exactly when the table
\* holds the very string; it is then the last entry, occurs once, and
\* is_valid is false.
C7_AlreadyExistsIff ==
    Returned =>
        /\ Has(Out, "already_exists") <=> serial \in store
        /\ serial \in store =>
              /\ Out.errors[Len(Out.errors)] = "already_exists"
              /\ Count(Out, "already_exists") = 1
              /\ ~Out.is_valid

C7_Witness ==
    /\ Returned
    /\ serial = S_serial1
    /\ serial \in store
    /\ Out.errors = <<"already_exists">>

\* The stored key up to case is not a match.
C7_WitnessCase ==
    /\ Returned
    /\ serial = S_SERIAL1
    /\ S_serial1 \in store
    /\ Out.is_valid

\* C8: an invocation that returns, for the same string as an earlier
\* returning invocation and with the table unchanged since, returns the
\* same is_valid and the same errors.
C8_Idempotent ==
    (Returned /\ prev # <<>> /\ prev[1].serial = serial)
        => Out = prev[1].result

C8_Witness ==
    /\ Returned
    /\ prev # <<>>
    /\ prev[1].serial = serial
    /\ Out.errors # <<>>

\* C9: an invocation that has ended, with a result or with a fault, has
\* issued exactly one read, and no invocation ever issues a second one.
C9_ExactlyOneRead ==
    /\ pc \in {"await", "returned", "fault"} => reads = 1
    /\ reads <= 1

C9_Witness ==
    /\ pc = "fault"
    /\ reads = 1
    /\ serial = S_a_bang

\* C10: no step of an invocation changes the table.
C10_StoreUnchanged ==
    [][(pc # "idle" \/ pc' # "idle") => store' = store]_vars

C10_Witness ==
    /\ Returned
    /\ prev # <<>>
    /\ prev[1].serial = serial
    /\ prev[1].result.is_valid
    /\ Out.is_valid

====
